---- MODULE Spec2Model ----
(***************************************************************************)
(* Model of utils/check_usage.py: the subnet classifier, the per-account   *)
(* aggregation, the report chunking and the polling loop with its          *)
(* collaborators (configuration, notifier, disable action, session writer).*)
(*                                                                         *)
(* A Python str is a sequence of one-character strings, so that parsing,   *)
(* formatting, slicing and strip() are computed, never assumed.  A Python  *)
(* dict is a sequence of entries in insertion order with unique keys.  An  *)
(* account name is never parsed, only compared and copied into the report  *)
(* text: the name made of character c repeated n times is held as          *)
(* [c |-> c, n |-> n] and written out by NameText.                         *)
(***************************************************************************)
EXTENDS Integers, Sequences, FiniteSets, TLC

VARIABLES
    ACTIVE_USERS,    \* the observation store: <<[name, ip]>> in insertion order
    pc,              \* where the polling-loop coroutine is suspended
    config_data,     \* check_users_usage's config_data (line 202), as last read
    all_users_log,   \* the report: <<[name, ips]>>, sorted
    message_chunks,  \* check_ip_used's message_chunks, as the last call left it
    show_single_ip_users, \* check_ip_used's local of line 67, as the last call left it
    i,               \* index of the chunk being sent (0-based, line 179)
    k,               \* position of the enforcement loop in all_users_log (1-based)
    ip_list,         \* argument of a direct call of group_ips_by_subnet
    subnet_keys,     \* result of that call
    calls,           \* history: what the current cycle has done so far, in order
    snapshot,        \* history: the store as lines 69-76 last read it
    report,          \* history: the report check_ip_used last returned
    late,            \* history: observations recorded since that read
    lost,            \* history: observations cleared without ever being read
    cycle,           \* history: iterations of the polling loop started
    writes           \* history: observations recorded by the session writer

vars == <<ACTIVE_USERS, pc, config_data, all_users_log, message_chunks,
          show_single_ip_users, i, k, ip_list, subnet_keys, calls, snapshot, report,
          late, lost, cycle, writes>>

----------------------------------------------------------------------------
(* Bounds of the model.                                                    *)

\* longest string given to the classifier when every string is enumerated
MaxStrLen == 7

\* iterations of the polling loop that a behaviour starts
MaxCycles == 2

\* observations the session writer records while the loop runs
MaxWrites == 1

\* longest observation sequence of an account when every sequence is enumerated
MaxObs == 5

----------------------------------------------------------------------------
(* Strings.                                                                *)

Digits == <<"0", "1", "2", "3", "4", "5", "6", "7", "8", "9">>

IsDigit(c) == \E d \in 1..10 : Digits[d] = c

DigitVal(c) == (CHOOSE d \in 1..10 : Digits[d] = c) - 1

\* int(s) for a string of decimal digits
RECURSIVE ParseInt(_)
ParseInt(s) ==
    IF s = <<>> THEN 0
    ELSE 10 * ParseInt(SubSeq(s, 1, Len(s) - 1)) + DigitVal(s[Len(s)])

\* str(n) for n >= 0
RECURSIVE Str(_)
Str(n) ==
    IF n < 10 THEN <<Digits[n + 1]>>
    ELSE Str(n \div 10) \o <<Digits[(n % 10) + 1]>>

\* s.split(sep) for a one-character separator
RECURSIVE Split(_, _)
Split(s, sep) ==
    IF \A j \in 1..Len(s) : s[j] # sep THEN <<s>>
    ELSE LET p == CHOOSE j \in 1..Len(s) :
                      s[j] = sep /\ \A h \in 1..(j - 1) : s[h] # sep
         IN  <<SubSeq(s, 1, p - 1)>> \o Split(SubSeq(s, p + 1, Len(s)), sep)

\* sep.join(parts)
RECURSIVE Join(_, _)
Join(parts, sep) ==
    IF parts = <<>> THEN <<>>
    ELSE IF Len(parts) = 1 THEN parts[1]
    ELSE parts[1] \o sep \o Join(Tail(parts), sep)

\* s.rsplit(sep, 1)[0]
RSplitHead(s, sep) ==
    IF \A j \in 1..Len(s) : s[j] # sep THEN s
    ELSE LET p == CHOOSE j \in 1..Len(s) :
                      s[j] = sep /\ \A h \in (j + 1)..Len(s) : s[h] # sep
         IN  SubSeq(s, 1, p - 1)

----------------------------------------------------------------------------
(* ipaddress: the part of the standard library the classifier calls.       *)

\* ipaddress.IPv4Address._parse_octet: 1 to 3 ASCII digits, no leading zero
\* on a multi-digit octet, value at most 255
OctetOk(o) ==
    /\ Len(o) \in 1..3
    /\ \A j \in 1..Len(o) : IsDigit(o[j])
    /\ ~(Len(o) > 1 /\ o[1] = "0")
    /\ ParseInt(o) <= 255

\* ipaddress.ip_address(ip): the parsed address, or the ValueError it raises.
\* A string with no ':' is tried as IPv4 only; IPv6 text is not modelled and
\* the strings of this model hold no ':'.
ip_address(ip) ==
    LET octets == Split(ip, ".")
    IN  IF Len(octets) = 4 /\ \A j \in 1..4 : OctetOk(octets[j])
        THEN [exc |-> "none", version |-> 4,
              packed |-> [j \in 1..4 |-> ParseInt(octets[j])]]
        ELSE [exc |-> "ValueError"]

\* a /16 mask in place of the /24 one
network_address16(packed) == [packed EXCEPT ![3] = 0, ![4] = 0]

\* ipaddress.ip_network(f"{ip}/24", strict=False).network_address: the host
\* bits under the 24-bit mask are cleared
network_address24(packed) == [packed EXCEPT ![4] = 0]

\* IPv4Address.exploded: dotted decimal
exploded(packed) == Join([j \in 1..4 |-> Str(packed[j])], <<".">>)

----------------------------------------------------------------------------
(* group_ips_by_subnet.                                                    *)

DotX == <<".", "x">>

\* the key of one ip: the body of the loop, lines 33-55
subnet_key(ip) ==
    LET ip_obj == ip_address(ip)
    IN  IF ip_obj.exc = "ValueError"
        THEN ip                                         \* except ValueError
        ELSE IF ip_obj.version = 4
        THEN RSplitHead(exploded(network_address24(ip_obj.packed)), ".") \o DotX
        ELSE ip                                         \* str(ip_obj), IPv6

\* list(d.keys()) of a dict filled in the order of keys: first occurrences
RECURSIVE DictKeys(_)
DictKeys(keys) ==
    IF keys = <<>> THEN <<>>
    ELSE LET init == DictKeys(SubSeq(keys, 1, Len(keys) - 1))
             last == keys[Len(keys)]
         IN  IF \E j \in 1..Len(init) : init[j] = last THEN init
             ELSE Append(init, last)

group_ips_by_subnet(ips) ==
    DictKeys([j \in 1..Len(ips) |-> subnet_key(ips[j])])

----------------------------------------------------------------------------
(* check_ip_used: aggregation, lines 68-85.                                *)

Range(s) == {s[j] : j \in 1..Len(s)}

\* Counter(data.ip)[ip]
ip_counts(ips, ip) == Cardinality({j \in 1..Len(ips) : ips[j] = ip})

\* the filter keeping an IP from its second occurrence on
filtered_set_from_two(ips) == {ip \in Range(ips) : ip_counts(ips, ip) > 1}

\* {ip for ip in data.ip if ip_counts[ip] > 2}
filtered_set(ips) == {ip \in Range(ips) : ip_counts(ips, ip) > 2}

\* list(a set): the elements once each, in an order the hash table decides
ListsOf(S) ==
    {o \in [1..Cardinality(S) -> S] : \A a, b \in 1..Cardinality(S) : a # b => o[a] # o[b]}

\* every all_users_log the loop of lines 69-77 can build from the store
RECURSIVE AggregateAll(_)
AggregateAll(users) ==
    IF users = <<>> THEN {<<>>}
    ELSE {<<[name |-> users[1].name, ips |-> group_ips_by_subnet(filtered_ips)]>> \o rest :
              filtered_ips \in ListsOf(filtered_set(users[1].ip)),
              rest \in AggregateAll(Tail(users))}

\* sum(len(ips) for ips in all_users_log.values())
RECURSIVE total_ips(_)
total_ips(log) ==
    IF log = <<>> THEN 0 ELSE Len(log[1].ips) + total_ips(Tail(log))

\* a sort by count that puts an entry ahead of the earlier entries of its count
RECURSIVE SortByCount_TiesReversed(_)
SortByCount_TiesReversed(log) ==
    IF log = <<>> THEN <<>>
    ELSE LET init == SortByCount_TiesReversed(SubSeq(log, 1, Len(log) - 1))
             e    == log[Len(log)]
             at   == Cardinality({j \in 1..Len(init) : Len(init[j].ips) > Len(e.ips)})
         IN  SubSeq(init, 1, at) \o <<e>> \o SubSeq(init, at + 1, Len(init))

\* sorted(items, key=len of the value, reverse=True): stable, so an entry goes
\* behind every earlier entry whose count is at least its own
RECURSIVE SortByCount(_)
SortByCount(log) ==
    IF log = <<>> THEN <<>>
    ELSE LET init == SortByCount(SubSeq(log, 1, Len(log) - 1))
             e    == log[Len(log)]
             at   == Cardinality({j \in 1..Len(init) : Len(init[j].ips) >= Len(e.ips)})
         IN  SubSeq(init, 1, at) \o <<e>> \o SubSeq(init, at + 1, Len(init))

----------------------------------------------------------------------------
(* check_ip_used: rendering, lines 87-126.                                 *)

CodeOpen == <<"<", "c", "o", "d", "e", ">">>
CodeClose == <<"<", "/", "c", "o", "d", "e", ">">>
WithCode == <<" ", "w", "i", "t", "h", " ", "<", "c", "o", "d", "e", ">">>
ActiveIp == <<" ", "a", "c", "t", "i", "v", "e", " ", "i", "p", ":", " ">>
ActiveIps == <<" ", "a", "c", "t", "i", "v", "e", " ", "i", "p", "s", ":", "\n", "-", " ">>
Bullet == <<"\n", "-", " ">>
SummaryHead ==
    <<"-", "-", "-", "-", "-", "-", "-", "-", "-", "\n", "C", "o", "u", "n", "t",
      " ", "O", "f", " ", "A", "l", "l", " ", "A", "c", "t", "i", "v", "e", " ",
      "I", "P", "s", ":", " ", "<", "b", ">">>
BoldClose == <<"<", "/", "b", ">">>
BlankLine == <<"\n", "\n">>

\* the account name made of character c, n times, and its text
Rep(c, n) == [c |-> c, n |-> n]

NameText(name) == [j \in 1..name.n |-> name.c]

\* one entry of user_messages, lines 93-106
user_message(email, ips) ==
    IF Len(ips) = 1
    THEN CodeOpen \o email \o CodeClose \o WithCode \o Str(Len(ips)) \o CodeClose
             \o ActiveIp \o CodeOpen \o ips[1] \o CodeClose
    ELSE CodeOpen \o email \o CodeClose \o WithCode \o Str(Len(ips)) \o CodeClose
             \o ActiveIps \o Join(ips, Bullet)

\* user_messages, lines 87-106
RECURSIVE user_messages(_, _)
user_messages(log, show) ==
    IF log = <<>> THEN <<>>
    ELSE LET ips  == log[1].ips
             rest == user_messages(Tail(log), show)
         IN  IF ips = <<>> THEN rest
             ELSE IF ~show /\ Len(ips) = 1 THEN rest
             ELSE <<user_message(NameText(log[1].name), ips)>> \o rest

\* summary_message, line 109
summary_message(total) == SummaryHead \o Str(total) \o BoldClose

\* complete_message, lines 118-126
complete_message(msgs, total) ==
    Join(msgs, BlankLine) \o BlankLine \o summary_message(total)

----------------------------------------------------------------------------
(* check_ip_used: chunking, lines 113-176.                                 *)

MAX_MESSAGE_LENGTH == 3000

\* the width of the forward search for a blank line, lines 144, 161, 166
SEARCH_WINDOW == 200

IsSpace(c) == c \in {" ", "\t", "\n", "\r", "\f"}

\* str.strip()
RECURSIVE lstrip(_)
lstrip(s) == IF s # <<>> /\ IsSpace(s[1]) THEN lstrip(Tail(s)) ELSE s

RECURSIVE rstrip(_)
rstrip(s) ==
    IF s # <<>> /\ IsSpace(s[Len(s)]) THEN rstrip(SubSeq(s, 1, Len(s) - 1)) ELSE s

strip(s) == rstrip(lstrip(s))

\* the slice without its first character
Slice_SkipFirst(s, a, b) == SubSeq(s, a + 2, b)

\* s[a:b] for 0 <= a, b <= len(s)
Slice(s, a, b) == SubSeq(s, a + 1, b)

Min(a, b) == IF a < b THEN a ELSE b

\* the split point left where lines 142, 157 and 158 computed it
find_split_fixed(msg, split_point) == split_point

\* the loops of lines 144-147, 161-164, 166-169: the split point moved behind
\* the first blank line that starts in the window, or left where it is.
\* Python index p is position p + 1 here.
find_split(msg, split_point) ==
    LET total_length == Len(msg)
        hits == {p \in split_point..(Min(split_point + SEARCH_WINDOW, total_length) - 1) :
                    msg[p + 1] = "\n" /\ p + 1 < total_length /\ msg[p + 2] = "\n"}
    IN  IF hits = {} THEN split_point
        ELSE (CHOOSE p \in hits : \A q \in hits : p <= q) + 2

\* message_chunks, lines 133-176
split_message(msg) ==
    LET total_length == Len(msg)
    IN  IF total_length <= MAX_MESSAGE_LENGTH THEN <<msg>>
        ELSE IF total_length <= MAX_MESSAGE_LENGTH * 2
        THEN LET split_point == find_split(msg, total_length \div 2)
             IN  <<strip(Slice(msg, 0, split_point)),
                   strip(Slice(msg, split_point, total_length))>>
        ELSE LET part_length  == total_length \div 3
                 split_point1 == find_split(msg, part_length)
                 split_point2 == find_split(msg, part_length * 2)
             IN  <<strip(Slice(msg, 0, split_point1)),
                   strip(Slice(msg, split_point1, split_point2)),
                   strip(Slice(msg, split_point2, total_length))>>

\* the text handed to send_logs for chunk j (0-based), lines 180-184; the four
\* non-ASCII characters of the part header are written "#"
SingleHeader ==
    <<"<", "b", ">", "A", "c", "t", "i", "v", "e", " ", "U", "s", "e", "r", "s",
      ":", "<", "/", "b", ">", "\n", "\n">>
PartHead == <<"<", "b", ">", "#", "#", "#", "#", " ", "P", "a", "r", "t", " ">>
PartOf == <<" ", "o", "f", " ">>

message_text(chunks, j) ==
    IF Len(chunks) > 1
    THEN PartHead \o Str(j + 1) \o PartOf \o Str(Len(chunks)) \o BoldClose
             \o BlankLine \o chunks[j + 1]
    ELSE SingleHeader \o chunks[j + 1]

----------------------------------------------------------------------------
(* Inputs: account names, IP strings, stores, configurations.              *)

Alice == Rep("a", 5)
Bob == Rep("b", 3)
Carol == Rep("c", 4)

IpA1 == <<"1", "0", ".", "0", ".", "7", ".", "1">>
IpA2 == <<"1", "0", ".", "0", ".", "7", ".", "2", "5">>
IpB == <<"8", ".", "8", ".", "8", ".", "8">>
IpBad == <<"n", "o", "n", "e">>

\* UserType(name=..., ip=[...])
User(name, ips) == [name |-> name, ip |-> ips]

Thrice(ip) == <<ip, ip, ip>>

\* config_data.get(key, default)
Get(cfg, key, default) == IF key \in DOMAIN cfg THEN cfg[key] ELSE default

Config(limit, special, except, single) ==
    [GENERAL_LIMIT |-> limit, SPECIAL_LIMIT |-> special, EXCEPT_USERS |-> except,
     SHOW_SINGLE_IP_USERS |-> single, CHECK_INTERVAL |-> 60]

NoSpecial == [u \in {} |-> 0]

\* what read_config can return
Configs ==
    { Config(1, NoSpecial, {}, TRUE),
      Config(1, (Alice :> 2) @@ (Bob :> 0), {Carol}, FALSE),
      Config(3, NoSpecial, {}, TRUE),
      [GENERAL_LIMIT |-> 0, CHECK_INTERVAL |-> 60] }

----------------------------------------------------------------------------
(* check_users_usage: the limit of lines 208-210.                          *)

\* len(set(user_ip))
distinct_count(user_ip) == Cardinality(Range(user_ip))

\* the limit with the per-account override left out
user_limit_number_general(cfg, user_name) == cfg["GENERAL_LIMIT"]

user_limit_number(cfg, user_name) ==
    LET special_limit == Get(cfg, "SPECIAL_LIMIT", NoSpecial)
        limit_number  == cfg["GENERAL_LIMIT"]
    IN  IF user_name \in DOMAIN special_limit THEN special_limit[user_name]
        ELSE limit_number

\* the two tests of lines 208 and 210
over_limit(cfg, entry) ==
    /\ entry.name \notin Get(cfg, "EXCEPT_USERS", {})
    /\ distinct_count(entry.ips) > user_limit_number(cfg, entry.name)

\* the first entry at or behind position from that passes both tests, or 0
next_over_limit(cfg, log, from) ==
    LET hits == {j \in from..Len(log) : over_limit(cfg, log[j])}
    IN  IF hits = {} THEN 0 ELSE CHOOSE j \in hits : \A h \in hits : j <= h

----------------------------------------------------------------------------
(* The stores a behaviour starts from, and what the session writer adds.   *)

StoreMixed ==
    << User(Alice, <<IpA1, IpB, IpA1, IpB, IpA1, IpB>>),
       User(Bob, <<IpA1, IpA2, IpA1, IpA1, IpA2>>),
       User(Carol, <<IpB, IpBad, IpB, IpBad, IpB, IpBad>>) >>

StoreQuiet == << User(Bob, <<IpA1, IpA1>>) >>

\* names long enough for a report of two and of three chunks
StoreTwoParts ==
    << User(Rep("p", 3060), Thrice(IpA1)), User(Rep("q", 2700), Thrice(IpB)) >>

StoreThreeParts ==
    << User(Rep("p", 2100), Thrice(IpA1)), User(Rep("q", 2100), Thrice(IpB)),
       User(Rep("r", 2100), Thrice(IpA1)) >>

InitStores == {<<>>, StoreMixed, StoreQuiet, StoreTwoParts, StoreThreeParts}

WriterNames == {Bob, Rep("d", 2)}
WriterIps == {IpA1, IpB}

RECURSIVE NumObs(_)
NumObs(users) == IF users = <<>> THEN 0 ELSE Len(users[1].ip) + NumObs(Tail(users))

\* the session writer's update of the store: append to the account's list, or
\* insert the account with a one-element list
record_ip(users, name, ip) ==
    IF \E j \in 1..Len(users) : users[j].name = name
    THEN [j \in 1..Len(users) |->
              IF users[j].name = name
              THEN [users[j] EXCEPT !.ip = Append(@, ip)] ELSE users[j]]
    ELSE Append(users, User(name, <<ip>>))

----------------------------------------------------------------------------
(* The polling loop, lines 198-230.  pc names the await the coroutine is   *)
(* suspended at; one action runs the code from that await to the next.     *)

NoUser == Rep("-", 0)
NoConfig == [x \in {} |-> 0]

\* one entry of the history calls
Ev(op, part, user, ok) == [op |-> op, part |-> part, user |-> user, ok |-> ok]

harness == <<ip_list, subnet_keys>>

Init ==
    /\ ACTIVE_USERS \in InitStores
    /\ pc = "read_config_202"
    /\ config_data = NoConfig
    /\ all_users_log = <<>>
    /\ message_chunks = <<>>
    /\ show_single_ip_users = TRUE
    /\ i = 0
    /\ k = 0
    /\ ip_list = <<>>
    /\ subnet_keys = <<>>
    /\ calls = <<>>
    /\ snapshot = <<>>
    /\ report = <<>>
    /\ late = NumObs(ACTIVE_USERS)
    /\ lost = 0
    /\ cycle = 0
    /\ writes = 0

\* an exception leaves check_users_usage and run_check_users_usage, which
\* catch nothing: the coroutine ends
Raise(done) ==
    /\ pc' = "raised"
    /\ calls' = done
    /\ UNCHANGED <<ACTIVE_USERS, config_data, all_users_log, message_chunks, i, k,
                   snapshot, report, late, lost, cycle, writes, harness,
                   show_single_ip_users>>

\* line 202, returning
ReadConfig202 ==
    /\ pc = "read_config_202"
    /\ cycle < MaxCycles
    /\ \E cfg \in Configs : config_data' = cfg
    /\ pc' = "read_config_66"
    /\ cycle' = cycle + 1
    /\ calls' = <<Ev("read_config", 0, NoUser, TRUE)>>
    /\ UNCHANGED <<ACTIVE_USERS, all_users_log, message_chunks, i, k, snapshot,
                   report, late, lost, writes, harness,
                   show_single_ip_users>>

\* line 202 raising, caught and replaced by a default configuration
ReadConfig202Defaults ==
    /\ pc = "read_config_202"
    /\ cycle < MaxCycles
    /\ config_data' = [GENERAL_LIMIT |-> 0, CHECK_INTERVAL |-> 60]
    /\ pc' = "read_config_66"
    /\ cycle' = cycle + 1
    /\ calls' = <<Ev("read_config", 0, NoUser, FALSE)>>
    /\ UNCHANGED <<ACTIVE_USERS, all_users_log, message_chunks, i, k, snapshot,
                   report, late, lost, writes, harness,
                   show_single_ip_users>>

\* line 202, raising
ReadConfig202Raises ==
    /\ pc = "read_config_202"
    /\ cycle < MaxCycles
    /\ pc' = "raised"
    /\ cycle' = cycle + 1
    /\ calls' = <<Ev("read_config", 0, NoUser, FALSE)>>
    /\ UNCHANGED <<ACTIVE_USERS, config_data, all_users_log, message_chunks, i, k,
                   snapshot, report, late, lost, writes, harness,
                   show_single_ip_users>>

\* lines 66-186: the configuration is read, the store aggregated, the report
\* sorted, rendered and cut into chunks, up to the first send
ReadConfig66 ==
    /\ pc = "read_config_66"
    /\ \E cfg \in Configs, log \in AggregateAll(ACTIVE_USERS) :
          LET show   == Get(cfg, "SHOW_SINGLE_IP_USERS", TRUE)
              sorted == SortByCount(log)
          IN  /\ show_single_ip_users' = show
              /\ all_users_log' = sorted
              /\ message_chunks' =
                     split_message(complete_message(
                         user_messages(sorted, show), total_ips(log)))
    /\ i' = 0
    /\ pc' = "send_logs_188"
    /\ snapshot' = ACTIVE_USERS
    /\ late' = 0
    /\ calls' = Append(Append(calls, Ev("read_config", 0, NoUser, TRUE)),
                       Ev("aggregate", 0, NoUser, TRUE))
    /\ UNCHANGED <<ACTIVE_USERS, config_data, k, report, lost, cycle, writes, harness>>

\* line 66, raising
ReadConfig66Raises ==
    /\ pc = "read_config_66"
    /\ Raise(Append(calls, Ev("read_config", 0, NoUser, FALSE)))

\* the enforcement loop with ACTIVE_USERS.clear() left out
Enforce_NoClear(from, done) ==
    LET j == next_over_limit(config_data, all_users_log, from)
    IN  IF j # 0
        THEN /\ k' = j
             /\ pc' = "send_logs_216"
             /\ calls' = done
             /\ UNCHANGED <<ACTIVE_USERS, all_users_log, late, lost>>
        ELSE /\ k' = 0
             /\ pc' = "read_config_229"
             /\ all_users_log' = <<>>
             /\ calls' = Append(done, Ev("clear", 0, NoUser, TRUE))
             /\ UNCHANGED <<ACTIVE_USERS, late, lost>>

\* the enforcement loop with ACTIVE_USERS.clear() inside the loop body
Enforce_ClearInLoop(from, done) ==
    LET j == next_over_limit(config_data, all_users_log, from)
    IN  /\ ACTIVE_USERS' = <<>>
        /\ late' = 0
        /\ lost' = lost + late
        /\ calls' = Append(done, Ev("clear", 0, NoUser, TRUE))
        /\ IF j # 0
           THEN k' = j /\ pc' = "send_logs_216" /\ UNCHANGED all_users_log
           ELSE k' = 0 /\ pc' = "read_config_229" /\ all_users_log' = <<>>

\* lines 207-222 from entry number from of the report: up to the next warning,
\* or through the two clear() calls to the return
Enforce(from, done) ==
    LET j == next_over_limit(config_data, all_users_log, from)
    IN  IF j # 0
        THEN /\ k' = j
             /\ pc' = "send_logs_216"
             /\ calls' = done
             /\ UNCHANGED <<ACTIVE_USERS, all_users_log, late, lost>>
        ELSE /\ k' = 0
             /\ pc' = "read_config_229"
             /\ ACTIVE_USERS' = <<>>
             /\ all_users_log' = <<>>
             /\ late' = 0
             /\ lost' = lost + late
             /\ calls' = Append(done, Ev("clear", 0, NoUser, TRUE))

\* line 195 and lines 204-207: check_ip_used returns the report and the
\* enforcement loop starts
Return195(done) ==
    /\ report' = all_users_log
    /\ Enforce(1, done)
    /\ UNCHANGED <<config_data, message_chunks, i, snapshot, cycle, writes, harness,
                   show_single_ip_users>>

\* the loop of line 179 goes on to the next chunk
NextChunk(done) ==
    /\ i' = i + 1
    /\ pc' = "send_logs_188"
    /\ calls' = done
    /\ UNCHANGED <<ACTIVE_USERS, config_data, all_users_log, message_chunks, k,
                   snapshot, report, late, lost, cycle, writes, harness,
                   show_single_ip_users>>

\* line 188 returning: the pause of line 191 unless this was the last chunk
SendLogs188 ==
    /\ pc = "send_logs_188"
    /\ LET done == Append(calls, Ev("send_logs", i + 1, NoUser, TRUE))
       IN  IF i < Len(message_chunks) - 1
           THEN /\ pc' = "sleep_191"
                /\ calls' = done
                /\ UNCHANGED <<ACTIVE_USERS, config_data, all_users_log, message_chunks,
                               i, k, snapshot, report, late, lost, cycle, writes, harness,
                   show_single_ip_users>>
           ELSE Return195(done)

\* line 188 raising with no try around it
SendLogs188Propagates ==
    /\ pc = "send_logs_188"
    /\ Raise(Append(calls, Ev("send_logs", i + 1, NoUser, FALSE)))

\* line 188 raising: lines 192-193 log it and the loop goes on
SendLogs188Raises ==
    /\ pc = "send_logs_188"
    /\ LET done == Append(calls, Ev("send_logs", i + 1, NoUser, FALSE))
       IN  IF i < Len(message_chunks) - 1 THEN NextChunk(done) ELSE Return195(done)

\* line 191 returning
Sleep191 ==
    /\ pc = "sleep_191"
    /\ NextChunk(Append(calls, Ev("pause", 2, NoUser, TRUE)))

\* line 216 returning
SendLogs216 ==
    /\ pc = "send_logs_216"
    /\ pc' = "disable_user_218"
    /\ calls' = Append(calls, Ev("warning", 0, all_users_log[k].name, TRUE))
    /\ UNCHANGED <<ACTIVE_USERS, config_data, all_users_log, message_chunks, i, k,
                   snapshot, report, late, lost, cycle, writes, harness,
                   show_single_ip_users>>

\* line 216 raising: nothing catches it
SendLogs216Raises ==
    /\ pc = "send_logs_216"
    /\ Raise(Append(calls, Ev("warning", 0, all_users_log[k].name, FALSE)))

\* line 218 returning
DisableUser218 ==
    /\ pc = "disable_user_218"
    /\ Enforce(k + 1, Append(calls, Ev("disable_user", 0, all_users_log[k].name, TRUE)))
    /\ UNCHANGED <<config_data, message_chunks, i, snapshot, report, cycle, writes,
                   harness,
                   show_single_ip_users>>

\* line 218 raising ValueError with no try around it
DisableUser218Propagates ==
    /\ pc = "disable_user_218"
    /\ Raise(Append(calls, Ev("disable_user", 0, all_users_log[k].name, FALSE)))

\* line 218 raising ValueError: lines 219-220 print it and the loop goes on
DisableUser218Raises ==
    /\ pc = "disable_user_218"
    /\ Enforce(k + 1, Append(calls, Ev("disable_user", 0, all_users_log[k].name, FALSE)))
    /\ UNCHANGED <<config_data, message_chunks, i, snapshot, report, cycle, writes,
                   harness,
                   show_single_ip_users>>

\* line 229 returning
ReadConfig229 ==
    /\ pc = "read_config_229"
    /\ \E cfg \in Configs : cfg["CHECK_INTERVAL"] > 0
    /\ pc' = "sleep_230"
    /\ calls' = Append(calls, Ev("read_config", 0, NoUser, TRUE))
    /\ UNCHANGED <<ACTIVE_USERS, config_data, all_users_log, message_chunks, i, k,
                   snapshot, report, late, lost, cycle, writes, harness,
                   show_single_ip_users>>

\* line 229 raising
ReadConfig229Raises ==
    /\ pc = "read_config_229"
    /\ Raise(Append(calls, Ev("read_config", 0, NoUser, FALSE)))

\* line 230 returning: the next iteration of the while loop
Sleep230 ==
    /\ pc = "sleep_230"
    /\ pc' = "read_config_202"
    /\ calls' = Append(calls, Ev("sleep", 60, NoUser, TRUE))
    /\ UNCHANGED <<ACTIVE_USERS, config_data, all_users_log, message_chunks, i, k,
                   snapshot, report, late, lost, cycle, writes, harness,
                   show_single_ip_users>>

\* the session writer records one observation; it runs whenever the loop is
\* suspended, and the loop is suspended in every state of this model
Record ==
    /\ writes < MaxWrites
    /\ \E name \in WriterNames, ip \in WriterIps :
          ACTIVE_USERS' = record_ip(ACTIVE_USERS, name, ip)
    /\ writes' = writes + 1
    /\ late' = late + 1
    /\ UNCHANGED <<pc, config_data, all_users_log, message_chunks, i, k, calls,
                   snapshot, report, lost, cycle, harness,
                   show_single_ip_users>>

Next ==
    \/ ReadConfig202
    \/ ReadConfig202Raises
    \/ ReadConfig66
    \/ ReadConfig66Raises
    \/ SendLogs188
    \/ SendLogs188Raises
    \/ Sleep191
    \/ SendLogs216
    \/ SendLogs216Raises
    \/ DisableUser218
    \/ DisableUser218Raises
    \/ ReadConfig229
    \/ ReadConfig229Raises
    \/ Sleep230
    \/ Record

Spec == Init /\ [][Next]_vars

----------------------------------------------------------------------------
(* check_ip_used on its own: every store out of two families, entered at   *)
(* line 66 with the configuration of line 202 already read.                *)

IpPool == {IpA1, IpA2, IpB, IpBad}

SeqsUpTo(S, n) == UNION {[1..m -> S] : m \in 0..n}

\* one account with every observation sequence over the pool
ObservationStores == {<<User(Alice, ips)>> : ips \in SeqsUpTo(IpPool, MaxObs)}

\* one to three accounts, each seen three times at one address, with names of
\* the lengths that put the report text on either side of one, two and three
\* times MAX_MESSAGE_LENGTH
NameLens == {40, 1400, 2100, 2700, 2900, 3060}

LongNames == {Rep("p", n) : n \in NameLens}

LongStores ==
    {<<User(a, Thrice(IpA1))>> : a \in LongNames}
    \cup {<<User(a, Thrice(IpA1)), User(Rep("q", b.n), Thrice(IpB))>> :
              a \in LongNames, b \in LongNames}
    \cup {<<User(a, Thrice(IpA1)), User(Rep("q", b.n), Thrice(IpB)),
            User(Rep("r", c.n), Thrice(IpA2))>> :
              a \in LongNames, b \in LongNames, c \in LongNames}

\* addresses of the locations of the CDN scenarios, and a string that is no IP
Cdn1 == <<"1", "4", "0", ".", "2", "4", "8", ".", "7", "4", ".", "1">>
Cdn2 == <<"1", "4", "0", ".", "2", "4", "8", ".", "7", "4", ".", "1", "1", "3">>
Lan == <<"1", "9", "2", ".", "1", "6", "8", ".", "1", ".", "1">>
Dns == <<"1", ".", "1", ".", "1", ".", "1">>
CdnText == <<"1", "4", "0", ".", "2", "4", "8", ".", "7", "4", ".", "x">>

ScenarioPool == {Cdn1, Cdn2, Lan, IpB, Dns, CdnText}

\* a list of the set, each element three times in a row
RECURSIVE EachThrice(_)
EachThrice(S) ==
    IF S = {} THEN <<>>
    ELSE LET ip == CHOOSE x \in S : TRUE
         IN  Thrice(ip) \o EachThrice(S \ {ip})

\* one account that has every IP of a part of the pool three times
ScenarioStores == {<<User(Alice, EachThrice(S))>> : S \in SUBSET ScenarioPool}

\* three accounts with no, one or two keys each, in every combination
RankedIps == {<<>>, Thrice(IpA1), Thrice(IpA1) \o Thrice(IpB)}

RankedStores ==
    {<<User(Alice, a), User(Bob, b), User(Carol, c)>> :
        a \in RankedIps, b \in RankedIps, c \in RankedIps}

InitReport ==
    /\ ACTIVE_USERS \in ObservationStores \cup LongStores \cup ScenarioStores
                           \cup RankedStores
    /\ pc = "read_config_66"
    /\ config_data \in Configs
    /\ all_users_log = <<>>
    /\ message_chunks = <<>>
    /\ show_single_ip_users = TRUE
    /\ i = 0
    /\ k = 0
    /\ ip_list = <<>>
    /\ subnet_keys = <<>>
    /\ calls = <<Ev("read_config", 0, NoUser, TRUE)>>
    /\ snapshot = <<>>
    /\ report = <<>>
    /\ late = NumObs(ACTIVE_USERS)
    /\ lost = 0
    /\ cycle = 1
    /\ writes = 0

NextReport ==
    \/ ReadConfig66
    \/ ReadConfig66Raises

SpecReport == InitReport /\ [][NextReport]_vars

----------------------------------------------------------------------------
(* group_ips_by_subnet on its own.                                         *)

Alphabet == {"0", "2", "5", "."}

\* every string over the alphabet, and some longer ones
Strings ==
    SeqsUpTo(Alphabet, MaxStrLen)
    \cup { IpA1, IpA2, IpB, IpBad,
           <<"2", "5", "5", ".", "2", "5", "5", ".", "2", "5", "5", ".", "2", "5", "5">>,
           <<"2", "5", "5", ".", "2", "5", "5", ".", "2", "5", "5", ".", "0">>,
           <<"2", "5", "6", ".", "2", ".", "2", ".", "2">>,
           <<"2", ".", "2", ".", "2", "5", "6", ".", "2">>,
           <<"1", "0", ".", "0", ".", "7", ".", "x">>,
           <<"1", "0", ".", "0", ".", "0", "7", ".", "1">>,
           <<"1", "0", ".", "0", ".", "7", ".", "1", " ">>,
           <<"1", "0", ".", "0", ".", "8", ".", "1">>,
           <<"1", "0", ".", "0", ".", "7", ".", "1", ".", "1">>,
           <<"1", "0", ".", "0", ".", "7", ".", "1", "/", "2", "4">> }

\* the strings that lists of two and three are drawn from
ListPool ==
    { IpA1, IpA2, IpB, IpBad,
      <<"1", "0", ".", "0", ".", "7", ".", "x">>,
      <<"1", "0", ".", "0", ".", "7", ".", "0">>,
      <<"1", "0", ".", "0", ".", "8", ".", "1">>,
      <<"1", "0", ".", "0", ".", "0", "7", ".", "1">> }

InitClassify ==
    /\ ip_list \in {<<s>> : s \in Strings} \cup [1..2 -> ListPool] \cup [1..3 -> ListPool]
    /\ subnet_keys = <<>>
    /\ pc = "group_ips_by_subnet"
    /\ ACTIVE_USERS = <<>>
    /\ config_data = NoConfig
    /\ all_users_log = <<>>
    /\ message_chunks = <<>>
    /\ show_single_ip_users = TRUE
    /\ i = 0
    /\ k = 0
    /\ calls = <<>>
    /\ snapshot = <<>>
    /\ report = <<>>
    /\ late = 0
    /\ lost = 0
    /\ cycle = 0
    /\ writes = 0

\* lines 19-58
GroupIpsBySubnet ==
    /\ pc = "group_ips_by_subnet"
    /\ subnet_keys' = group_ips_by_subnet(ip_list)
    /\ pc' = "returned"
    /\ UNCHANGED <<ACTIVE_USERS, config_data, all_users_log, message_chunks, i, k,
                   ip_list, calls, snapshot, report, late, lost, cycle, writes,
                   show_single_ip_users>>

NextClassify == GroupIpsBySubnet

SpecClassify == InitClassify /\ [][NextClassify]_vars

----------------------------------------------------------------------------
(* Properties.                                                             *)

\* the entry of an account in a report
EntryOf(log, name) == log[CHOOSE j \in 1..Len(log) : log[j].name = name]

\* the keys of an account in the current report
KeysOf(name) == Range(EntryOf(all_users_log, name).ips)

\* the report of the store just read is in all_users_log
Aggregated == pc = "send_logs_188" /\ Len(all_users_log) = Len(snapshot)

\* the IPs of an observation sequence that occur 2 times or fewer
RareIps(ips) == {ip \in Range(ips) : ip_counts(ips, ip) <= 2}

\* another IP of the sequence that occurs more than 2 times and has this key
Backed(ips, ip, key) ==
    \E other \in Range(ips) :
        other # ip /\ ip_counts(ips, other) > 2 /\ subnet_key(other) = key

C2_ChunksWithinLimit ==
    pc = "send_logs_188" =>
        \A j \in 1..Len(message_chunks) : Len(message_chunks[j]) <= MAX_MESSAGE_LENGTH

\* a string a.b.c.d of four decimal numbers 0..255 written without leading zeros
Octets == {Str(n) : n \in 0..255}

IsDottedQuad(s) ==
    /\ Cardinality({j \in 1..Len(s) : s[j] = "."}) = 3
    /\ \A part \in Range(Split(s, ".")) : part \in Octets

\* a.b.c of a.b.c.d: the text before the last dot
FirstThree(s) == RSplitHead(s, ".")

\* the key C10 gives a string
KeyAsClaimed(s) == IF IsDottedQuad(s) THEN FirstThree(s) \o DotX ELSE s

\* C10: group_ips_by_subnet maps a valid IPv4 string a.b.c.d to a.b.c.x whatever
\* d is, and any string that does not parse to itself; it returns each key
\* once, so addresses sharing their first three octets give exactly one key.
C10_Classifier ==
    pc = "returned" =>
        /\ Range(subnet_keys) = {KeyAsClaimed(ip_list[j]) : j \in 1..Len(ip_list)}
        /\ \A a, b \in 1..Len(subnet_keys) : a # b => subnet_keys[a] # subnet_keys[b]
        /\ ( /\ ip_list # <<>>
             /\ \A j \in 1..Len(ip_list) :
                    /\ IsDottedQuad(ip_list[j])
                    /\ FirstThree(ip_list[j]) = FirstThree(ip_list[1]) )
           => subnet_keys = <<FirstThree(ip_list[1]) \o DotX>>

\* C10, witness: two addresses of one /24 and a string that does not parse,
\* classified to two keys
C10_Witness ==
    /\ pc = "returned"
    /\ Len(ip_list) = 3
    /\ IsDottedQuad(ip_list[1]) /\ IsDottedQuad(ip_list[2])
    /\ ip_list[1] # ip_list[2]
    /\ FirstThree(ip_list[1]) = FirstThree(ip_list[2])
    /\ ~IsDottedQuad(ip_list[3])
    /\ subnet_keys = <<FirstThree(ip_list[1]) \o DotX, ip_list[3]>>

\* the /24s of the valid IPv4 strings of a list
Subnets(ips) == {FirstThree(ip) : ip \in {x \in Range(ips) : IsDottedQuad(x)}}

\* the strings of a list that are no valid IPv4 address
OtherStrings(ips) == {ip \in Range(ips) : ~IsDottedQuad(ip)}

\* every IP of the list occurs at least 3 times
AllFrequent(ips) == ips # <<>> /\ \A ip \in Range(ips) : ip_counts(ips, ip) >= 3

\* C11, as stated: for an account whose IPs each occur at least 3 times the
\* report holds one key per distinct IPv4 /24 and one per distinct string that
\* is no IPv4 address, and no key twice.
C11_OneKeyPerLocation ==
    Aggregated =>
        \A u \in 1..Len(snapshot) :
            AllFrequent(snapshot[u].ip) =>
                LET keys == EntryOf(all_users_log, snapshot[u].name).ips
                IN  /\ Len(keys) = Cardinality(Range(keys))
                    /\ Len(keys) = Cardinality(Subnets(snapshot[u].ip))
                                       + Cardinality(OtherStrings(snapshot[u].ip))

\* the text check_ip_used cut into message_chunks
FullText ==
    complete_message(user_messages(all_users_log, show_single_ip_users),
                     total_ips(all_users_log))

\* where the entries after the first and the summary line start in the text
\* (Python indices), from the lengths of the rendered entries
RECURSIVE StartsFrom(_, _)
StartsFrom(msgs, at) ==
    IF msgs = <<>> THEN {}
    ELSE LET next == at + Len(msgs[1]) + Len(BlankLine)
         IN  {next} \cup StartsFrom(Tail(msgs), next)

EntryStarts == StartsFrom(user_messages(all_users_log, show_single_ip_users), 0)

\* the starts whose blank line begins in the window of a split position
InWindow(split_point) ==
    {b \in EntryStarts :
        /\ b - Len(BlankLine) >= split_point
        /\ b - Len(BlankLine) < Min(split_point + SEARCH_WINDOW, Len(FullText))}

FirstOf(S) == CHOOSE b \in S : \A c \in S : b <= c

\* the split positions lines 142, 157 and 158 compute
FirstSplit == Len(FullText) \div Len(message_chunks)
LastSplit == (Len(FullText) \div Len(message_chunks)) * (Len(message_chunks) - 1)

Chunked == pc = "send_logs_188" /\ Len(message_chunks) >= 2

\* C12: when the text is cut into 2 or 3 chunks and a blank line between
\* entries begins in the window of a computed split position, the cut is
\* right behind that blank line: the first chunk is the text up to the entry
\* that starts there (for the first position), the last chunk is the text from
\* that entry on (for the last position), so no entry lies on both sides.
C12_SplitAtBoundary ==
    Chunked =>
        /\ InWindow(FirstSplit) # {} =>
               message_chunks[1] = strip(Slice(FullText, 0, FirstOf(InWindow(FirstSplit))))
        /\ InWindow(LastSplit) # {} =>
               message_chunks[Len(message_chunks)] =
                   strip(Slice(FullText, FirstOf(InWindow(LastSplit)), Len(FullText)))

\* C12, witness: three chunks, both cuts moved to a blank line that the
\* computed position was not on
C12_Witness ==
    /\ Chunked
    /\ Len(message_chunks) = 3
    /\ InWindow(FirstSplit) # {} /\ FirstOf(InWindow(FirstSplit)) > FirstSplit + 2
    /\ InWindow(LastSplit) # {} /\ FirstOf(InWindow(LastSplit)) > LastSplit + 2

\* the characters of a text that are no whitespace, in order
NonSpace(s) == SelectSeq(s, LAMBDA c : ~IsSpace(c))

\* the chunks one after the other
RECURSIVE Concat(_)
Concat(chunks) == IF chunks = <<>> THEN <<>> ELSE chunks[1] \o Concat(Tail(chunks))

IsSuffix(a, b) == Len(a) <= Len(b) /\ SubSeq(b, Len(b) - Len(a) + 1, Len(b)) = a

\* how many times the head of the summary line occurs in a text
SummaryCount(s) ==
    Cardinality({p \in 1..(Len(s) - Len(SummaryHead) + 1) :
                    SubSeq(s, p, p + Len(SummaryHead) - 1) = SummaryHead})

\* C13: the chunks without their headers, in order, hold every character of
\* the full text that is no whitespace exactly once and in the original order,
\* and the summary line is in the last chunk and in no other.
C13_NothingLostOrDuplicated ==
    pc = "send_logs_188" =>
        /\ NonSpace(Concat(message_chunks)) = NonSpace(FullText)
        /\ IsSuffix(summary_message(total_ips(all_users_log)),
                    message_chunks[Len(message_chunks)])
        /\ \A j \in 1..(Len(message_chunks) - 1) : SummaryCount(message_chunks[j]) = 0

\* C13, witness: three chunks, a cut inside an entry, and whitespace trimmed
\* at a cut
C13_Witness ==
    /\ Chunked
    /\ Len(message_chunks) = 3
    /\ InWindow(FirstSplit) = {}
    /\ Len(Concat(message_chunks)) < Len(FullText)
    /\ NonSpace(Concat(message_chunks)) = NonSpace(FullText)

\* C14, as stated: every chunk of message_chunks, one chunk or several, with
\* or without a rendered entry, has no whitespace at its start or its end
\* before its header is put in front.
C14_ChunksTrimmed ==
    pc = "send_logs_188" =>
        \A j \in 1..Len(message_chunks) : strip(message_chunks[j]) = message_chunks[j]

\* the position of an account in the store as lines 69-76 read it
PlaceOf(name) == CHOOSE j \in 1..Len(snapshot) : snapshot[j].name = name

\* C15: the report lists the accounts by falling number of keys, and two
\* accounts with the same number of keys are in the order the store had them.
C15_SortedStable ==
    Aggregated =>
        \A a, b \in 1..Len(all_users_log) :
            a < b =>
                /\ Len(all_users_log[a].ips) >= Len(all_users_log[b].ips)
                /\ Len(all_users_log[a].ips) = Len(all_users_log[b].ips) =>
                       PlaceOf(all_users_log[a].name) < PlaceOf(all_users_log[b].name)

\* C15, witness: the second account of the store is first in the report, and
\* the first and the third follow it with one key each
C15_Witness ==
    /\ Aggregated
    /\ Len(all_users_log) = 3
    /\ all_users_log[1].name = snapshot[2].name
    /\ all_users_log[2].name = snapshot[1].name
    /\ Len(all_users_log[1].ips) = 2
    /\ Len(all_users_log[2].ips) = 1
    /\ Len(all_users_log[3].ips) = 1

----------------------------------------------------------------------------
(* Properties of the polling loop.                                         *)

Last(s) == s[Len(s)]

IsPrefix(a, b) == Len(a) <= Len(b) /\ SubSeq(b, 1, Len(a)) = a

\* what a step adds to calls (all of calls' when a new iteration starts it over)
Fresh == IF IsPrefix(calls, calls') THEN SubSeq(calls', Len(calls) + 1, Len(calls')) ELSE calls'

Has(log, op) == \E j \in 1..Len(log) : log[j].op = op

\* the step runs ACTIVE_USERS.clear()
ClearStep == Has(Fresh, "clear")

\* the current iteration has cleared the store
Cleared == Has(calls, "clear")

\* check_ip_used has returned in the current iteration: report is its report
Returned == pc \in {"send_logs_216", "disable_user_218"} \/ Has(calls, "warning") \/ Cleared

\* the account was warned about / passed to the disable action in this iteration
Warned(name) == \E j \in 1..Len(calls) : calls[j].op = "warning" /\ calls[j].user = name

Passed(name) == \E j \in 1..Len(calls) : calls[j].op = "disable_user" /\ calls[j].user = name

\* the limit that applies to an account: its override when it has one, the
\* general limit otherwise
EffectiveLimit(cfg, name) ==
    IF "SPECIAL_LIMIT" \in DOMAIN cfg /\ name \in DOMAIN cfg["SPECIAL_LIMIT"]
    THEN cfg["SPECIAL_LIMIT"][name]
    ELSE cfg["GENERAL_LIMIT"]

Exempt(cfg, name) == "EXCEPT_USERS" \in DOMAIN cfg /\ name \in cfg["EXCEPT_USERS"]

\* the account is to be disabled: not exempt, more distinct keys than its limit
ShouldDisable(cfg, e) ==
    ~Exempt(cfg, e.name) /\ Cardinality(Range(e.ips)) > EffectiveLimit(cfg, e.name)

\* the enforcement loop is done with entry j of the report
Decided(j) == Cleared \/ (k > 0 /\ j < k)

\* C3: an account is warned about and passed to the disable action if and only
\* if it is not exempt and has more distinct keys than its effective limit (its
\* override when it has one, the general limit otherwise): only such accounts
\* are ever warned about or disabled, and every such account the loop is done
\* with has been.
C3_DisabledIffOverLimit ==
    Returned =>
        \A j \in 1..Len(report) :
            LET e      == report[j]
                should == ShouldDisable(config_data, e)
            IN  /\ Warned(e.name) => should
                /\ Passed(e.name) => should /\ Warned(e.name)
                /\ Decided(j) => (should <=> Warned(e.name) /\ Passed(e.name))

\* C3, witness: a finished pass in which an exempt account over its limit was
\* left alone, an account was disabled on an override below the general limit,
\* and an account was left alone on an override above the general limit
C3_Witness ==
    /\ Cleared
    /\ "SPECIAL_LIMIT" \in DOMAIN config_data
    /\ \E a, b, c \in 1..Len(report) :
           /\ Exempt(config_data, report[a].name)
           /\ Len(report[a].ips) > EffectiveLimit(config_data, report[a].name)
           /\ ~Warned(report[a].name) /\ ~Passed(report[a].name)
           /\ report[b].name \in DOMAIN config_data["SPECIAL_LIMIT"]
           /\ Len(report[b].ips) <= config_data["GENERAL_LIMIT"]
           /\ Passed(report[b].name)
           /\ report[c].name \in DOMAIN config_data["SPECIAL_LIMIT"]
           /\ Len(report[c].ips) > config_data["GENERAL_LIMIT"]
           /\ ~Warned(report[c].name) /\ ~Passed(report[c].name)

\* the store holds what the snapshot held and, behind it, what came later
StoreExtends(store, snap) ==
    /\ Len(snap) <= Len(store)
    /\ \A j \in 1..Len(snap) :
           store[j].name = snap[j].name /\ IsPrefix(snap[j].ip, store[j].ip)

\* C4: the clear removes everything the store holds, the observations written
\* since the aggregator read it included; the report of the cycle was made from
\* the store as read, so those observations are dropped without being counted.
C4_LateObservationsDropped ==
    [][ClearStep =>
          /\ StoreExtends(ACTIVE_USERS, snapshot)
          /\ report' \in {SortByCount(log) : log \in AggregateAll(snapshot)}
          /\ ACTIVE_USERS' = <<>>
          /\ lost' = lost + (NumObs(ACTIVE_USERS) - NumObs(snapshot))]_vars

\* C4, witness: the store has just been cleared and an observation written
\* between the read and the clear went with it
C4_Witness == pc = "read_config_229" /\ ACTIVE_USERS = <<>> /\ lost > 0 /\ writes > 0

\* the parts handed to the notifier in this iteration, in order
RECURSIVE PartsSent(_)
PartsSent(log) ==
    IF log = <<>> THEN <<>>
    ELSE IF log[1].op = "send_logs" THEN <<log[1].part>> \o PartsSent(Tail(log))
    ELSE PartsSent(Tail(log))

\* the step is the await of pc raising
Fails(at, op) == pc = at /\ Fresh # <<>> /\ Fresh[1].op = op /\ ~Fresh[1].ok

\* the enforcement loop starts, or goes on, behind entry from of the report
EnforcementGoesOn(log, from) ==
    LET hits == {j \in (from + 1)..Len(log) : ShouldDisable(config_data, log[j])}
    IN  IF hits = {}
        THEN pc' = "read_config_229" /\ ACTIVE_USERS' = <<>>
        ELSE /\ pc' = "send_logs_216"
             /\ k' \in hits /\ \A h \in hits : k' <= h
             /\ ACTIVE_USERS' = ACTIVE_USERS

\* C5: a failed send of a chunk is caught: the next chunk is sent or, behind
\* the last chunk, check_ip_used returns the report and the enforcement loop
\* starts at its first account; once check_ip_used has returned every chunk has
\* been handed to the notifier, and a finished pass has dealt with every account.
C5_ChunkFailureCaught ==
    /\ [](Returned =>
            /\ PartsSent(calls) = [j \in 1..Len(message_chunks) |-> j]
            /\ Cleared => \A j \in 1..Len(report) :
                              ShouldDisable(config_data, report[j])
                                  => Warned(report[j].name) /\ Passed(report[j].name))
    /\ [][Fails("send_logs_188", "send_logs") =>
            IF i + 1 < Len(message_chunks)
            THEN pc' = "send_logs_188" /\ i' = i + 1 /\ message_chunks' = message_chunks
            ELSE /\ report' = all_users_log
                 /\ report' \in {SortByCount(log) : log \in AggregateAll(snapshot)}
                 /\ EnforcementGoesOn(report', 0)]_vars

\* C5, witness: a finished pass of a report in several chunks whose first send
\* failed, with an account disabled
C5_Witness ==
    /\ Cleared
    /\ Len(message_chunks) > 1
    /\ \E j \in 1..Len(calls) :
           calls[j].op = "send_logs" /\ calls[j].part = 1 /\ ~calls[j].ok
    /\ \E j \in 1..Len(report) : Passed(report[j].name)

\* C6, as stated: the chunks are handed to the notifier in the order 1..n, and
\* between two successive sends the pause takes place, also when the earlier
\* send failed.
C6_OrderedWithPause ==
    /\ \E n \in 0..Len(calls) : PartsSent(calls) = [j \in 1..n |-> j]
    /\ \A a, b \in 1..Len(calls) :
           (a < b /\ calls[a].op = "send_logs" /\ calls[b].op = "send_logs")
               => \E p \in (a + 1)..(b - 1) : calls[p].op = "pause"

\* the events of an iteration other than the configuration reads
RECURSIVE Steps(_)
Steps(log) ==
    IF log = <<>> THEN <<>>
    ELSE IF log[1].op = "read_config" THEN Steps(Tail(log))
    ELSE <<log[1]>> \o Steps(Tail(log))

Rank(e) ==
    CASE e.op = "aggregate" -> 1
      [] e.op \in {"send_logs", "pause"} -> 2
      [] e.op \in {"warning", "disable_user"} -> 3
      [] e.op = "clear" -> 4
      [] e.op = "sleep" -> 5

\* the sends of n chunks with the pauses between them
ChunkEvents(n) ==
    [j \in 1..(IF n = 0 THEN 0 ELSE 2 * n - 1) |->
        IF j % 2 = 1 THEN Ev("send_logs", (j + 1) \div 2, NoUser, TRUE)
        ELSE Ev("pause", 2, NoUser, TRUE)]

\* the accounts of a report that are to be disabled, in the report's order
RECURSIVE Violators(_, _)
Violators(cfg, log) ==
    IF log = <<>> THEN <<>>
    ELSE IF ShouldDisable(cfg, log[1]) THEN <<log[1].name>> \o Violators(cfg, Tail(log))
    ELSE Violators(cfg, Tail(log))

\* the warning and the disable call of each of them
DisableEvents(names) ==
    [j \in 1..(2 * Len(names)) |->
        IF j % 2 = 1 THEN Ev("warning", 0, names[(j + 1) \div 2], TRUE)
        ELSE Ev("disable_user", 0, names[j \div 2], TRUE)]

\* an iteration has run to its end with no collaborator failing
RanClean == pc = "read_config_202" /\ calls # <<>> /\ \A j \in 1..Len(calls) : calls[j].ok

\* C7: an iteration aggregates, sends the chunks, evaluates the limits with the
\* disable calls, clears the store and then sleeps, in this order: no step of an
\* earlier phase follows one of a later phase, the store is emptied by the
\* clear alone, the sleep is followed by the next iteration, and an iteration
\* without failures does exactly these steps.
C7_IterationOrder ==
    /\ [](LET steps == Steps(calls)
          IN  /\ \A a, b \in 1..Len(steps) :
                     a < b => /\ Rank(steps[a]) <= Rank(steps[b])
                              /\ Rank(steps[a]) = Rank(steps[b]) => Rank(steps[a]) \in {2, 3}
              /\ Has(calls, "sleep") => Cleared
              /\ RanClean =>
                     calls = <<Ev("read_config", 0, NoUser, TRUE),
                               Ev("read_config", 0, NoUser, TRUE),
                               Ev("aggregate", 0, NoUser, TRUE)>>
                             \o ChunkEvents(Len(message_chunks))
                             \o DisableEvents(Violators(config_data, report))
                             \o <<Ev("clear", 0, NoUser, TRUE),
                                  Ev("read_config", 0, NoUser, TRUE),
                                  Ev("sleep", 60, NoUser, TRUE)>>)
    /\ [][/\ (ACTIVE_USERS # <<>> /\ ACTIVE_USERS' = <<>>) => ClearStep
          /\ Has(Fresh, "sleep") => pc' = "read_config_202"]_vars

\* C7, witness: a clean iteration with two chunks sent and an account disabled
C7_Witness ==
    /\ RanClean
    /\ Len(message_chunks) > 1
    /\ Has(calls, "disable_user")

\* C8: a disable call failing with ValueError is caught: the loop goes on to
\* the next account over its limit, or to the clear when there is none; in a
\* finished pass every account over its limit behind the failed one has been
\* warned about and passed to the disable action.
C8_DisableFailureCaught ==
    /\ [](Cleared =>
            \A p \in 1..Len(calls) :
                (calls[p].op = "disable_user" /\ ~calls[p].ok) =>
                    \A j \in 1..Len(report) :
                        ( /\ ShouldDisable(config_data, report[j])
                          /\ \E h \in 1..(j - 1) : report[h].name = calls[p].user )
                        => \E q, r \in (p + 1)..Len(calls) :
                               /\ q < r
                               /\ calls[q] = Ev("warning", 0, report[j].name, TRUE)
                               /\ calls[r].op = "disable_user"
                               /\ calls[r].user = report[j].name)
    /\ [][Fails("disable_user_218", "disable_user") =>
            /\ all_users_log[k].name = Fresh[1].user
            /\ EnforcementGoesOn(all_users_log, k)]_vars

\* C8, witness: the store cleared behind a failed disable call and a later one
C8_Witness ==
    /\ pc = "read_config_229"
    /\ ACTIVE_USERS = <<>>
    /\ \E p, q \in 1..Len(calls) :
           /\ p < q
           /\ calls[p].op = "disable_user" /\ ~calls[p].ok
           /\ calls[q].op = "disable_user"

\* the iteration ended in a failed configuration read before the aggregation
FailedAtStart ==
    /\ pc = "raised"
    /\ calls # <<>>
    /\ Last(calls).op = "read_config" /\ ~Last(calls).ok
    /\ ~Has(calls, "aggregate")

\* C9: a configuration read failing at the start of a cycle (line 202 or line
\* 66) ends the coroutine with the store as it was: nothing has been sent, no
\* account disabled, the store not cleared, and nothing of it happens later.
C9_ConfigFailureIsFatal ==
    /\ [](FailedAtStart => \A j \in 1..Len(calls) : calls[j].op = "read_config")
    /\ [][/\ (Fails("read_config_202", "read_config") \/ Fails("read_config_66", "read_config"))
             => pc' = "raised" /\ ACTIVE_USERS' = ACTIVE_USERS
          /\ pc = "raised" =>
                /\ pc' = "raised" /\ calls' = calls
                /\ ACTIVE_USERS # <<>> => ACTIVE_USERS' # <<>>]_vars

\* C9, witness: the read of line 66 failed on a store that holds observations
C9_Witness ==
    /\ FailedAtStart
    /\ Len(calls) = 2
    /\ ACTIVE_USERS # <<>>

\* C16, as stated: a cycle stops short of the clear only for a failed
\* configuration read: a send that fails, of a report chunk or of the warning
\* about an account over its limit, is caught, the account warned about is
\* still passed to the disable action and the cycle goes on to the clear.
C16_NotifierFailureNeverStopsCycle ==
    /\ [](pc = "raised" => Last(calls).op = "read_config")
    /\ [][Fails("send_logs_188", "send_logs") => pc' # "raised"]_vars
    /\ [][Fails("send_logs_216", "warning") =>
            pc' = "disable_user_218" /\ k' = k /\ ACTIVE_USERS' = ACTIVE_USERS]_vars

====
